---- MODULE Spec2Model ----
(***************************************************************************)
(* DailyBuyStrategy: the decision logic of the strategy's host callbacks.  *)
(*                                                                         *)
(* Numbers.  Prices (current_rate, DCA prices) are positive integers       *)
(* (ticks).  A stop-loss is kept in hundredths of a tick, so that          *)
(* current_rate * new_sl_coef is exact with new_sl_coef given in percent.  *)
(* Profit ratios are in basis points (1/10000): 0.005 is 50, 0.01 is 100.  *)
(* Strings that the code searches (exit reasons) are sequences of          *)
(* one-character strings.                                                  *)
(***************************************************************************)
EXTENDS Integers, Sequences, FiniteSets, TLC

VARIABLES
    custom_data,          \* CustomDataWrapper: trade id -> key -> list of records
    new_sl_coef,          \* self.new_sl_coef.value, in percent
    dca_candles_modulo,   \* self.dca_candles_modulo.value
    call,                 \* the last trade callback: its arguments and what it returned
    commands,             \* self.commands
    timeframe,            \* self.timeframe
    lookback_length,      \* self.lookback_length.value
    dataframe,            \* the candle rows the host hands to populate_*
    metadata,             \* metadata of that dataframe: the pair
    stage,                \* the callback the host calls next on that dataframe
    entry,                \* what populate_entry_trend did on that dataframe
    exit                  \* what populate_exit_trend did on that dataframe

vars == <<custom_data, new_sl_coef, dca_candles_modulo, call, commands, timeframe,
          lookback_length, dataframe, metadata, stage, entry, exit>>

tradeVars == <<custom_data, new_sl_coef, dca_candles_modulo, call>>
signalVars == <<commands, timeframe, lookback_length, dataframe, metadata, stage, entry, exit>>

----------------------------------------------------------------------------
(* Bounds of the model *)

MaxCandles == 3
SignalRows == 2
TtfRows == 4
MaxQueue == 3

TradeIds == {1, 2}
\* current_rate, in ticks: 995 is exactly 99.5% of 1000, 990 is below 99.5% of 995
Prices == {900, 990, 995, 1000}
\* current_profit handed to adjust_trade_position, in basis points
DcaProfits == {-200, -100}
NewSlCoefs == {75, 90}
DcaModulos == {2, 3}
\* profit ratios trade.calc_profit_ratio returns, in basis points
ProfitRatios == {-300, 10, 49, 50, 100}

\* dca_threshold, default 0.01, in basis points
dca_threshold == 100

Max(a, b) == IF a >= b THEN a ELSE b
Last(s) == s[Len(s)]

\* Python's None, and a returned value
None == [none |-> TRUE]
Some(v) == [none |-> FALSE, value |-> v]

\* all sequences over S of length 0..n
RECURSIVE SeqsUpTo(_, _)
SeqsUpTo(S, n) ==
    IF n = 0 THEN {<<>>}
    ELSE LET shorter == SeqsUpTo(S, n - 1)
         IN  shorter \cup {Append(s, x) : s \in {t \in shorter : Len(t) = n - 1}, x \in S}

----------------------------------------------------------------------------
(* The per-trade custom data store and the DCA decision *)

\* the open trades of the host; stop_loss in hundredths of a tick
Trades ==
    {[id |-> 1, stake_amount |-> 40, stop_loss |-> 0],
     [id |-> 2, stake_amount |-> 100, stop_loss |-> 99000]}

\* the analyzed dataframe of get_analyzed_dataframe: rows with a RangeIndex 0..n-1;
\* only the last candle's resistance_signal varies
AnalyzedFrames ==
    {[i \in 1..n |-> [resistance_signal |-> (i = n /\ last)]] :
        n \in 0..MaxCandles, last \in BOOLEAN}

NoRecords == [DCA |-> <<>>, SL |-> <<>>]

\* CustomDataWrapper.get_custom_data(trade_id, key)
get_custom_data(store, trade_id, key) == store[trade_id][key]

\* CustomDataWrapper.set_custom_data(trade_id, key, value)
set_custom_data(store, trade_id, key, v) ==
    [store EXCEPT ![trade_id][key] = <<[value |-> v]>>]

get_dca_list(store, trade) ==
    LET recs == get_custom_data(store, trade.id, "DCA")
    IN  IF Len(recs) = 0 THEN <<>> ELSE recs[1].value

get_mk_sl(store, trade) ==
    LET recs == get_custom_data(store, trade.id, "SL")
    IN  IF Len(recs) = 0 THEN trade.stop_loss ELSE recs[1].value

set_mk_sl(store, trade, current_rate) ==
    LET sl == current_rate * new_sl_coef
    IN  set_custom_data(store, trade.id, "SL", sl)

confirm_dca_overwrites(store, current_rate, trade) ==
    set_custom_data(set_mk_sl(store, trade, current_rate), trade.id, "DCA", <<current_rate>>)

confirm_dca(store, current_rate, trade) ==
    LET dcas == Append(get_dca_list(store, trade), current_rate)
    IN  set_custom_data(set_mk_sl(store, trade, current_rate), trade.id, "DCA", dcas)

PriceNotDropped_no_margin(dcas, current_rate) ==
    Len(dcas) > 0 /\ current_rate > Last(dcas)

\* line 279: current_rate >= dcas[-1] * 0.995
PriceNotDropped(dcas, current_rate) ==
    Len(dcas) > 0 /\ current_rate * 1000 >= Last(dcas) * 995

OffModulo_candle_count(last_index) == (last_index + 1) % dca_candles_modulo /= 0

\* line 298: last_index % dca_candles_modulo != 0
OffModulo(last_index) == last_index % dca_candles_modulo /= 0

\* adjust_trade_position up to its decision: TRUE when the DCA is approved
DcaApproved(store, trade, current_rate, current_profit, frame) ==
    LET dcas == get_dca_list(store, trade)
    IN  IF PriceNotDropped(dcas, current_rate) THEN FALSE
        ELSE IF current_profit >= -dca_threshold THEN FALSE
        ELSE IF Len(frame) = 0 THEN FALSE
        ELSE LET last_candle == Last(frame)
                 last_index == Len(frame) - 1
                 dca_list == get_dca_list(store, trade)
             IN  IF Len(dca_list) > 0 /\ current_rate > Last(dca_list) THEN FALSE
                 ELSE IF OffModulo(last_index) THEN FALSE
                 ELSE last_candle.resistance_signal

AdjustReturn(trade, approved) ==
    IF approved THEN Some(trade.stake_amount) ELSE None

AdjustTradePosition(trade, current_rate, current_profit, frame) ==
    LET approved == DcaApproved(custom_data, trade, current_rate, current_profit, frame)
    IN  /\ custom_data' = IF approved THEN confirm_dca(custom_data, current_rate, trade)
                          ELSE custom_data
        /\ call' = [op |-> "adjust_trade_position", trade |-> trade,
                    current_rate |-> current_rate, current_profit |-> current_profit,
                    frame |-> frame, before |-> custom_data,
                    ret |-> AdjustReturn(trade, approved)]
        /\ UNCHANGED <<new_sl_coef, dca_candles_modulo>>

----------------------------------------------------------------------------
(* Exit reasons, the exit confirmation gate and the custom stop-loss check *)

TAG_macd_ema_exit == <<"m", "a", "c", "d", "_", "e", "m", "a", "_", "e", "x", "i", "t">>
TAG_trigger_sell == <<"t", "r", "i", "g", "g", "e", "r", "_", "s", "e", "l", "l">>
KW_trailing == <<"t", "r", "a", "i", "l", "i", "n", "g">>
KW_roi == <<"r", "o", "i">>
KW_force == <<"f", "o", "r", "c", "e">>
KW_trigger == <<"t", "r", "i", "g", "g", "e", "r">>
R_trailing_stop_loss == <<"t", "r", "a", "i", "l", "i", "n", "g", "_", "s", "t", "o", "p", "_", "l", "o", "s", "s">>
R_stop_loss == <<"s", "t", "o", "p", "_", "l", "o", "s", "s">>
R_force_exit == <<"f", "o", "r", "c", "e", "_", "e", "x", "i", "t">>
R_exit_signal == <<"e", "x", "i", "t", "_", "s", "i", "g", "n", "a", "l">>
R_emergency_exit == <<"e", "m", "e", "r", "g", "e", "n", "c", "y", "_", "e", "x", "i", "t">>
PREFIX_custom_stop_loss == <<"c", "u", "s", "t", "o", "m", "_", "s", "t", "o", "p", "_", "l", "o", "s", "s", "_">>

\* the exit reasons the host raises itself, and the exit tags of populate_exit_trend
HostExitReasons ==
    {KW_roi, R_trailing_stop_loss, R_stop_loss, R_force_exit, R_exit_signal,
     R_emergency_exit, TAG_macd_ema_exit, TAG_trigger_sell}

\* Python's `sub in s` on strings
In(sub, s) ==
    \E i \in 1..(Len(s) - Len(sub) + 1) : SubSeq(s, i, i + Len(sub) - 1) = sub

DigitChar(d) == <<"0", "1", "2", "3", "4", "5", "6", "7", "8", "9">>[d + 1]

\* the decimal digits of a natural number
RECURSIVE IntDigits(_)
IntDigits(n) ==
    IF n < 10 THEN <<DigitChar(n)>> ELSE Append(IntDigits(n \div 10), DigitChar(n % 10))

\* f"{sl}" of a non-negative float given in hundredths: 74625 is "746.25",
\* 89550 is "895.5", 90000 is "900.0"
FormatFloat(hundredths) ==
    LET frac == hundredths % 100
        fracDigits == IF frac % 10 = 0 THEN <<DigitChar(frac \div 10)>>
                      ELSE <<DigitChar(frac \div 10), DigitChar(frac % 10)>>
    IN  IntDigits(hundredths \div 100) \o <<".">> \o fracDigits

CustomExitReason_trigger_tag(sl) == KW_trigger \o <<"_">> \o R_stop_loss \o <<"_">> \o FormatFloat(sl)

\* line 263: f"custom_stop_loss_{sl}"
CustomExitReason(sl) == PREFIX_custom_stop_loss \o FormatFloat(sl)

AtOrBelow_strict(current_rate, sl) == current_rate * 100 < sl

\* line 262: current_rate <= sl, the stop-loss being in hundredths
AtOrBelow(current_rate, sl) == current_rate * 100 <= sl

custom_exit(store, trade, current_rate) ==
    LET sl == get_mk_sl(store, trade)
    IN  IF AtOrBelow(current_rate, sl) THEN Some(CustomExitReason(sl)) ELSE None

confirm_trade_exit_strict_profit(exit_reason, profit_ratio) ==
    IF In(TAG_macd_ema_exit, exit_reason) /\ profit_ratio > 50 THEN TRUE
    ELSE IF (In(KW_trailing, exit_reason) \/ In(KW_roi, exit_reason)) /\ profit_ratio > 50
         THEN TRUE
    ELSE IF In(KW_force, exit_reason) \/ In(KW_trigger, exit_reason) THEN TRUE
    ELSE FALSE

confirm_trade_exit(exit_reason, profit_ratio) ==
    IF In(TAG_macd_ema_exit, exit_reason) /\ profit_ratio >= 50 THEN TRUE
    ELSE IF (In(KW_trailing, exit_reason) \/ In(KW_roi, exit_reason)) /\ profit_ratio >= 50
         THEN TRUE
    ELSE IF In(KW_force, exit_reason) \/ In(KW_trigger, exit_reason) THEN TRUE
    ELSE FALSE

CustomExit(trade, current_rate) ==
    /\ call' = [op |-> "custom_exit", trade |-> trade, current_rate |-> current_rate,
                ret |-> custom_exit(custom_data, trade, current_rate)]
    /\ UNCHANGED <<custom_data, new_sl_coef, dca_candles_modulo>>

\* the host asks for confirmation of an exit it raised itself
ConfirmTradeExit(exit_reason, profit_ratio) ==
    /\ call' = [op |-> "confirm_trade_exit", exit_reason |-> exit_reason,
                profit_ratio |-> profit_ratio, custom |-> FALSE,
                ret |-> confirm_trade_exit(exit_reason, profit_ratio)]
    /\ UNCHANGED <<custom_data, new_sl_coef, dca_candles_modulo>>

\* the host asks for confirmation of the exit custom_exit has just signalled
ConfirmCustomExit(profit_ratio) ==
    /\ call.op = "custom_exit"
    /\ ~call.ret.none
    /\ call' = [op |-> "confirm_trade_exit", exit_reason |-> call.ret.value,
                profit_ratio |-> profit_ratio, custom |-> TRUE,
                ret |-> confirm_trade_exit(call.ret.value, profit_ratio)]
    /\ UNCHANGED <<custom_data, new_sl_coef, dca_candles_modulo>>

----------------------------------------------------------------------------
(* Specification of the trade callbacks *)

InitTrade ==
    /\ custom_data = [t \in TradeIds |-> NoRecords]
    /\ new_sl_coef \in NewSlCoefs
    /\ dca_candles_modulo \in DcaModulos
    /\ call = [op |-> "none"]

\* no dataframe is being analysed
InitSignalsIdle ==
    /\ commands = <<>>
    /\ timeframe = "1h"
    /\ lookback_length = 1
    /\ dataframe = <<>>
    /\ metadata = [pair |-> "BTC/USD"]
    /\ stage = "idle"
    /\ entry = [outcome |-> "none"]
    /\ exit = [outcome |-> "none"]

Init == InitTrade /\ InitSignalsIdle

Next ==
    \/ /\ \E trade \in Trades, current_rate \in Prices, current_profit \in DcaProfits,
             frame \in AnalyzedFrames :
             AdjustTradePosition(trade, current_rate, current_profit, frame)
       /\ UNCHANGED signalVars
    \/ /\ \E trade \in Trades, current_rate \in Prices : CustomExit(trade, current_rate)
       /\ UNCHANGED signalVars
    \/ /\ \E exit_reason \in HostExitReasons, profit_ratio \in ProfitRatios :
             ConfirmTradeExit(exit_reason, profit_ratio)
       /\ UNCHANGED signalVars
    \/ /\ \E profit_ratio \in ProfitRatios : ConfirmCustomExit(profit_ratio)
       /\ UNCHANGED signalVars

Spec == Init /\ [][Next]_vars

----------------------------------------------------------------------------
(* Properties of the trade callbacks *)

IsAdjust == call.op = "adjust_trade_position"
IsCustomExit == call.op = "custom_exit"
IsConfirm == call.op = "confirm_trade_exit"

\* the DCA list and the persisted stop-loss records of a trade id
DcaOf(store, id) == IF Len(store[id].DCA) = 0 THEN <<>> ELSE store[id].DCA[1].value
SlRecords(store, id) == store[id].SL

\* every refusal check of adjust_trade_position passes and the last candle shows
\* the resistance-breakout signal, stated on the call's arguments
PassesAllChecks ==
    LET before == DcaOf(call.before, call.trade.id)
        n == Len(call.frame)
    IN  /\ (Len(before) = 0 \/ call.current_rate * 1000 < before[Len(before)] * 995)
        /\ call.current_profit < -dca_threshold
        /\ n > 0
        /\ (n - 1) % dca_candles_modulo = 0
        /\ call.frame[n].resistance_signal

\* C3: when adjust_trade_position approves (all refusal checks passed, resistance
\* signal on the last candle) the current price is appended to the trade's DCA list,
\* the persisted stop-loss is current price x new_sl_coef, strictly below the current
\* price, and the trade's stake amount is returned; otherwise None is returned.
C3_DcaApprovalEffects ==
    IsAdjust =>
        LET id == call.trade.id
        IN  IF PassesAllChecks
            THEN /\ DcaOf(custom_data, id) = Append(DcaOf(call.before, id), call.current_rate)
                 /\ SlRecords(custom_data, id) = <<[value |-> call.current_rate * new_sl_coef]>>
                 /\ SlRecords(custom_data, id)[1].value < call.current_rate * 100
                 /\ call.ret = Some(call.trade.stake_amount)
            ELSE call.ret = None

\* an approval on a trade that already had a DCA price
C3_Witness ==
    /\ IsAdjust
    /\ PassesAllChecks
    /\ Len(DcaOf(call.before, call.trade.id)) > 0

\* C4: when the index of the last analyzed candle is not divisible by
\* dca_candles_modulo, adjust_trade_position returns None and records no DCA price.
C4_DcaRateLimit ==
    (IsAdjust /\ Len(call.frame) > 0 /\ (Len(call.frame) - 1) % dca_candles_modulo /= 0) =>
        /\ call.ret = None
        /\ custom_data = call.before

\* the modulo check is the only one that refuses
C4_Witness ==
    /\ IsAdjust
    /\ Len(call.frame) > 0
    /\ (Len(call.frame) - 1) % dca_candles_modulo /= 0
    /\ Last(call.frame).resistance_signal
    /\ call.current_profit < -dca_threshold
    /\ Len(DcaOf(call.before, call.trade.id)) > 0
    /\ call.current_rate * 1000 < Last(DcaOf(call.before, call.trade.id)) * 995
    /\ call.ret = None

\* C7: custom_exit uses the persisted 'SL' value when one exists and the trade's
\* default stop-loss otherwise, and signals a custom exit exactly when the current
\* price is at or below that value.
C7_CustomStopLoss ==
    IsCustomExit =>
        LET recs == SlRecords(custom_data, call.trade.id)
            used == IF Len(recs) > 0 THEN recs[1].value ELSE call.trade.stop_loss
        IN  IF call.current_rate * 100 <= used
            THEN call.ret = Some(PREFIX_custom_stop_loss \o FormatFloat(used))
            ELSE call.ret = None

\* a custom exit at a price equal to a persisted stop-loss that differs from the default
C7_Witness ==
    /\ IsCustomExit
    /\ Len(SlRecords(custom_data, call.trade.id)) > 0
    /\ SlRecords(custom_data, call.trade.id)[1].value = call.current_rate * 100
    /\ call.trade.stop_loss < call.current_rate * 100
    /\ ~call.ret.none

\* C2: confirm_trade_exit approves exactly when the reason mentions macd_ema_exit and
\* profit >= 0.5%, or mentions trailing or roi and profit >= 0.5%, or mentions force
\* or trigger; 'roi' at 1% is approved, 'roi' at 0.1% is rejected, a reason
\* containing 'force' is approved at any profit.
C2_ExitGate ==
    IsConfirm =>
        LET r == call.exit_reason
            p == call.profit_ratio
        IN  /\ call.ret <=>
                 \/ In(TAG_macd_ema_exit, r) /\ p >= 50
                 \/ (In(KW_trailing, r) \/ In(KW_roi, r)) /\ p >= 50
                 \/ In(KW_force, r) \/ In(KW_trigger, r)
            /\ (r = KW_roi /\ p = 100) => call.ret
            /\ (r = KW_roi /\ p = 10) => ~call.ret
            /\ In(KW_force, r) => call.ret

\* the default exit tag approved at exactly 0.5% profit
C2_Witness ==
    /\ IsConfirm
    /\ call.exit_reason = TAG_macd_ema_exit
    /\ call.profit_ratio = 50
    /\ call.ret

\* C10: the exit reason custom_exit produces is rejected by confirm_trade_exit at
\* every profit ratio.
C10_CustomExitRejected ==
    (IsConfirm /\ call.custom) => ~call.ret

\* a custom stop-loss exit, rejected at 1% profit
C10_Witness ==
    /\ IsConfirm
    /\ call.custom
    /\ call.profit_ratio = 100
    /\ In(PREFIX_custom_stop_loss, call.exit_reason)
    /\ ~call.ret

\* C9: every persisted DCA list is strictly decreasing, each price below 99.5% of
\* the one before; an 'SL' record exists exactly when the list is non-empty and is
\* new_sl_coef x the last DCA price; a call returning None changes neither.
C9_DcaRecordInvariant ==
    /\ \A id \in TradeIds :
          LET dcas == DcaOf(custom_data, id)
              recs == SlRecords(custom_data, id)
          IN  /\ \A i \in 2..Len(dcas) : dcas[i] * 1000 < dcas[i - 1] * 995
              /\ (Len(recs) > 0) <=> (Len(dcas) > 0)
              /\ Len(dcas) > 0 => recs[1].value = new_sl_coef * Last(dcas)
    /\ (IsAdjust /\ call.ret = None) => custom_data = call.before

\* three DCA prices recorded on one trade
C9_Witness ==
    \E id \in TradeIds : Len(DcaOf(custom_data, id)) >= 3

----------------------------------------------------------------------------
(* Candle dataframes and populate_indicators *)

\* A numeric cell of a dataframe column: NaN, or the float num/den with den >= 0,
\* where den = 0 is +inf (num > 0) or -inf (num < 0), as pandas divides.
NaN == [nan |-> TRUE]
Frac(num, den) ==
    IF den = 0 /\ num = 0 THEN NaN
    ELSE IF den < 0 THEN [nan |-> FALSE, num |-> -num, den |-> -den]
    ELSE [nan |-> FALSE, num |-> num, den |-> den]
Num(x) == [nan |-> FALSE, num |-> x, den |-> 1]

\* a > b on cells; a comparison with NaN is False
Gt(a, b) == ~a.nan /\ ~b.nan /\ a.num * b.den > b.num * a.den
Lt(a, b) == Gt(b, a)

\* a - b on integer cells
Minus(a, b) == IF a.nan \/ b.nan THEN NaN ELSE Num(a.num - b.num)

RECURSIVE MaxOver(_, _, _)
MaxOver(col, lo, hi) == IF lo = hi THEN col[lo] ELSE Max(col[hi], MaxOver(col, lo, hi - 1))

RECURSIVE MinOver(_, _, _)
MinOver(col, lo, hi) ==
    IF lo = hi THEN col[lo]
    ELSE LET m == MinOver(col, lo, hi - 1) IN IF col[hi] <= m THEN col[hi] ELSE m

\* Series.rolling(window, min_periods).max() at row i of an integer column
RollingMax(col, window, min_periods, i) ==
    LET lo == Max(1, i - window + 1)
    IN  IF i - lo + 1 < min_periods THEN NaN ELSE Num(MaxOver(col, lo, i))

RollingMin(col, window, min_periods, i) ==
    LET lo == Max(1, i - window + 1)
    IN  IF i - lo + 1 < min_periods THEN NaN ELSE Num(MinOver(col, lo, i))

\* Series.shift(k) at row i of a column of cells
Shift(col, k, i) == IF i - k < 1 THEN NaN ELSE col[i - k]

\* swing_window at its default; swing_min_periods at the low end of IntParameter(1, 10),
\* so that swing_high is a number from the first row on
swing_window == 50
swing_min_periods == 1
upper_trigger_level == 100
lower_trigger_level == -100

TtfOf_unparenthesised(buyPower, sellPower) ==
    IF buyPower.nan \/ sellPower.nan THEN NaN
    ELSE Frac(200 * (buyPower.num - sellPower.num) + sellPower.num * buyPower.num,
              buyPower.num)

\* lines 172-173: 200 * (buyPower - sellPower) / (buyPower + sellPower)
TtfOf(buyPower, sellPower) ==
    IF buyPower.nan \/ sellPower.nan THEN NaN
    ELSE Frac(200 * (buyPower.num - sellPower.num), buyPower.num + sellPower.num)

\* calculate_pivots: r1 = 2 * pp - low.shift(1), pp = (high + low + close).shift(1) / 3
Resistance1(frame, i) ==
    IF i = 1 THEN NaN
    ELSE LET prev == frame[i - 1]
         IN  Frac(2 * (prev.high + prev.low + prev.close) - 3 * prev.low, 3)

\* The columns populate_indicators adds to the candles.  macd, macdsignal, ema_short
\* and ema_long are what TA-Lib returns for the candles and come with them.
populate_indicators(frame) ==
    LET n == lookback_length
        close == [i \in 1..Len(frame) |-> frame[i].close]
        high == [i \in 1..Len(frame) |-> frame[i].high]
        hh == [i \in 1..Len(frame) |-> RollingMax(close, n, n, i)]
        ll == [i \in 1..Len(frame) |-> RollingMin(close, n, n, i)]
        buyPower == [i \in 1..Len(frame) |-> Minus(hh[i], Shift(ll, n, i))]
        sellPower == [i \in 1..Len(frame) |-> Minus(Shift(hh, n, i), ll[i])]
    IN  [i \in 1..Len(frame) |->
            LET previous_close == IF i = 1 THEN NaN ELSE Num(close[i - 1])
                resistance_1 == Resistance1(frame, i)
            IN  [high |-> frame[i].high, low |-> frame[i].low, close |-> frame[i].close,
                 volume |-> frame[i].volume,
                 macd |-> frame[i].macd, macdsignal |-> frame[i].macdsignal,
                 ema_short |-> frame[i].ema_short, ema_long |-> frame[i].ema_long,
                 previous_close |-> previous_close,
                 resistance_1 |-> resistance_1,
                 swing_high |-> RollingMax(high, swing_window, swing_min_periods, i),
                 resistance_signal |-> Gt(Num(close[i]), resistance_1)
                                        /\ Gt(Num(close[i]), previous_close),
                 buyPower |-> buyPower[i], sellPower |-> sellPower[i],
                 ttf |-> TtfOf(buyPower[i], sellPower[i]),
                 enter_long |-> 0, enter_tag |-> "", exit_long |-> 0, exit_tag |-> ""]]

PopulateIndicators ==
    /\ stage = "populate_indicators"
    /\ dataframe' = populate_indicators(dataframe)
    /\ stage' = "populate_entry_trend"
    /\ UNCHANGED <<commands, timeframe, lookback_length, metadata, entry, exit>>

----------------------------------------------------------------------------
(* populate_entry_trend and populate_exit_trend *)

Pairs == {"BTC/USD", "ETH/USD"}
Commands == [pair : Pairs, command : {"BUY", "SELL"}]

timeframe_hierarchy ==
    [t \in {"1m", "5m", "15m", "1h", "4h", "1d", "1w"} |->
        CASE t = "1m" -> "5m" [] t = "5m" -> "15m" [] t = "15m" -> "1h" [] t = "1h" -> "4h"
          [] t = "4h" -> "1d" [] t = "1d" -> "1w" [] t = "1w" -> "1M"]

\* lines 178-182 and 217-221: the last queued command is `command` for `pair`
LastCommandIs(queue, pair, command) ==
    /\ Len(queue) > 0
    /\ Last(queue).pair = pair
    /\ Last(queue).command = command

\* lines 183 and 222: [s for s in self.commands if s['pair'] != pair]
RECURSIVE WithoutPair(_, _)
WithoutPair(queue, pair) ==
    IF Len(queue) = 0 THEN <<>>
    ELSE IF queue[1].pair = pair THEN WithoutPair(Tail(queue), pair)
    ELSE <<queue[1]>> \o WithoutPair(Tail(queue), pair)

\* dataframe.loc[mask, ['enter_long', 'enter_tag']] = (1, tag)
SetEnter(frame, mask, tag) ==
    [i \in 1..Len(frame) |->
        IF mask[i] THEN [frame[i] EXCEPT !.enter_long = 1, !.enter_tag = tag] ELSE frame[i]]

\* dataframe.loc[mask, ['exit_long', 'exit_tag']] = (1, tag)
SetExit(frame, mask, tag) ==
    [i \in 1..Len(frame) |->
        IF mask[i] THEN [frame[i] EXCEPT !.exit_long = 1, !.exit_tag = tag] ELSE frame[i]]

VolumeMask(frame) == [i \in 1..Len(frame) |-> frame[i].volume > 0]

\* lines 190-192; & binds tighter than |
EntryRule(row) ==
    \/ Gt(Num(row.macd), Num(row.macdsignal)) /\ Gt(Num(row.ema_short), Num(row.ema_long))
    \/ row.resistance_signal /\ row.volume > 0
    \/ Gt(row.ttf, Num(upper_trigger_level))

\* line 203: dataframe['close'] < informative['close'].shift(1), the informative
\* closes already reindexed to the dataframe
BelowInformative(frame, informative, i) ==
    Lt(Num(frame[i].close), Shift([j \in 1..Len(frame) |-> Num(informative[j])], 1, i))

EntryMask(frame, informative) ==
    [i \in 1..Len(frame) |->
        /\ EntryRule(frame[i])
        /\ Len(informative) > 0 => BelowInformative(frame, informative, i)]

ExitMask_any(frame) ==
    [i \in 1..Len(frame) |->
        LET row == frame[i]
        IN  \/ \/ Gt(Num(row.close), row.swing_high)
               \/ Lt(Num(row.macd), Num(row.macdsignal))
                  /\ Lt(Num(row.ema_short), Num(row.ema_long))
               \/ Lt(row.ttf, Num(lower_trigger_level))
            \/ row.volume > 0]

\* lines 227-238
ExitMask(frame) ==
    [i \in 1..Len(frame) |->
        LET row == frame[i]
        IN  /\ \/ Gt(Num(row.close), row.swing_high)
               \/ Lt(Num(row.macd), Num(row.macdsignal))
                  /\ Lt(Num(row.ema_short), Num(row.ema_long))
               \/ Lt(row.ttf, Num(lower_trigger_level))
            /\ row.volume > 0]

\* informative: the closes of get_pair_dataframe(pair, level) reindexed to the
\* dataframe, <<>> when that dataframe is empty
PopulateEntryTrend(informative) ==
    /\ stage = "populate_entry_trend"
    /\ IF LastCommandIs(commands, metadata.pair, "BUY")
       THEN /\ commands' = WithoutPair(commands, metadata.pair)
            /\ dataframe' = SetEnter(dataframe, VolumeMask(dataframe), "trigger_buy")
            /\ entry' = [outcome |-> "returned", path |-> "manual", queue |-> commands]
            /\ stage' = "populate_exit_trend"
       ELSE IF timeframe \notin DOMAIN timeframe_hierarchy
       THEN \* line 196 raises KeyError
            /\ entry' = [outcome |-> "raised", path |-> "base", queue |-> commands]
            /\ stage' = "aborted"
            /\ UNCHANGED <<commands, dataframe>>
       ELSE /\ dataframe' = SetEnter(dataframe, EntryMask(dataframe, informative),
                                     "multi_timeframe_cross")
            /\ entry' = [outcome |-> "returned", path |-> "base", queue |-> commands]
            /\ stage' = "populate_exit_trend"
            /\ UNCHANGED commands
    /\ UNCHANGED <<timeframe, lookback_length, metadata, exit>>

PopulateExitTrend ==
    /\ stage = "populate_exit_trend"
    /\ IF LastCommandIs(commands, metadata.pair, "SELL")
       THEN /\ commands' = WithoutPair(commands, metadata.pair)
            /\ dataframe' = SetExit(dataframe, VolumeMask(dataframe), "trigger_sell")
            /\ exit' = [outcome |-> "returned", path |-> "manual", queue |-> commands]
       ELSE /\ dataframe' = SetExit(dataframe, ExitMask(dataframe), "macd_ema_exit")
            /\ exit' = [outcome |-> "returned", path |-> "base", queue |-> commands]
            /\ UNCHANGED commands
    /\ stage' = "analysed"
    /\ UNCHANGED <<timeframe, lookback_length, metadata, entry>>

\* the candles of a dataframe, without the columns the strategy added
Candle(row) ==
    [high |-> row.high, low |-> row.low, close |-> row.close, volume |-> row.volume,
     macd |-> row.macd, macdsignal |-> row.macdsignal,
     ema_short |-> row.ema_short, ema_long |-> row.ema_long]

\* the next cycle: the host analyses a pair again, from the candles
NextCycle(pair) ==
    /\ stage \in {"analysed", "aborted"}
    /\ metadata' = [pair |-> pair]
    /\ dataframe' = [i \in 1..Len(dataframe) |-> Candle(dataframe[i])]
    /\ stage' = "populate_indicators"
    /\ entry' = [outcome |-> "none"]
    /\ exit' = [outcome |-> "none"]
    /\ UNCHANGED <<commands, timeframe, lookback_length>>

----------------------------------------------------------------------------
(* Specifications of the dataframe callbacks *)

\* no trade callback has run
InitTradeIdle ==
    /\ custom_data = [t \in TradeIds |-> NoRecords]
    /\ new_sl_coef = 75
    /\ dca_candles_modulo = 10
    /\ call = [op |-> "none"]

\* candles with high = low = close
FlatCandles(closeSet, volumes, macds, emas) ==
    {[high |-> c, low |-> c, close |-> c, volume |-> v,
      macd |-> m, macdsignal |-> 1, ema_short |-> e, ema_long |-> 1] :
        c \in closeSet, v \in volumes, m \in macds, e \in emas}

\* candles that closed at their low
WickCandles(volumes, macds, emas) ==
    {[high |-> 2, low |-> 1, close |-> 1, volume |-> v,
      macd |-> m, macdsignal |-> 1, ema_short |-> e, ema_long |-> 1] :
        v \in volumes, m \in macds, e \in emas}

SignalCandles == FlatCandles({1, 2}, {0, 1}, {0, 2}, {0, 2}) \cup WickCandles({0, 1}, {0, 2}, {0, 2})
CommandCandles == FlatCandles({1}, {0, 1}, {0, 2}, {2})
TtfCandles == FlatCandles({1, 2, 3}, {1}, {1}, {1})

Frames(candles, maxRows) == SeqsUpTo(candles, maxRows) \ {<<>>}

\* the informative closes the host can return for a dataframe
Informatives == {<<>>} \cup {[i \in 1..Len(dataframe) |-> c] : c \in {2, 3}}

InitSignals(queues, timeframes, lookbacks, frames) ==
    /\ commands \in queues
    /\ timeframe \in timeframes
    /\ lookback_length \in lookbacks
    /\ dataframe \in frames
    /\ metadata \in [pair : Pairs]
    /\ stage = "populate_indicators"
    /\ entry = [outcome |-> "none"]
    /\ exit = [outcome |-> "none"]

NextSignals ==
    \/ PopulateIndicators /\ UNCHANGED tradeVars
    \/ (\E informative \in Informatives : PopulateEntryTrend(informative)) /\ UNCHANGED tradeVars
    \/ PopulateExitTrend /\ UNCHANGED tradeVars
    \/ (\E pair \in Pairs : NextCycle(pair)) /\ UNCHANGED tradeVars

\* the rule paths: at most one queued command, a timeframe of the hierarchy
InitRules ==
    /\ InitTradeIdle
    /\ InitSignals(SeqsUpTo({c \in Commands : c.pair = "BTC/USD"}, 1), {"1h"}, {1},
                   Frames(SignalCandles, SignalRows))

SpecSignals == InitRules /\ [][NextSignals]_vars

\* the command queue
InitCommands ==
    /\ InitTradeIdle
    /\ InitSignals(SeqsUpTo(Commands, MaxQueue), {"1h"}, {1}, Frames(CommandCandles, 1))

SpecCommands == InitCommands /\ [][NextSignals]_vars

\* the configured timeframe
InitTimeframes ==
    /\ InitTradeIdle
    /\ InitSignals(SeqsUpTo(Commands, 1), {"1h", "1w", "30m", "1M"}, {1},
                   Frames(CommandCandles, 1))

SpecTimeframes == InitTimeframes /\ [][NextSignals]_vars

\* the TTF columns
InitTTF ==
    /\ InitTradeIdle
    /\ InitSignals({<<>>}, {"1h"}, {1, 2}, Frames(TtfCandles, TtfRows))

SpecTTF == InitTTF /\ [][NextSignals]_vars

----------------------------------------------------------------------------
(* Properties of the dataframe callbacks *)

HasCommand(queue, pair, command) ==
    \E i \in 1..Len(queue) : queue[i].pair = pair /\ queue[i].command = command

EntryRan == entry.outcome /= "none"
ExitRan == exit.outcome /= "none"
HasIndicators == stage \notin {"idle", "populate_indicators"}

\* C1: with a BUY command for the pair anywhere in the queue, populate_entry_trend
\* for that pair emits the manual entry (enter_long = 1, tag trigger_buy) and leaves
\* no BUY command for the pair in the queue.
C1_ManualBuyAnywhere ==
    (EntryRan /\ HasCommand(entry.queue, metadata.pair, "BUY")) =>
        /\ entry.outcome = "returned"
        /\ entry.path = "manual"
        /\ \A i \in 1..Len(dataframe) :
              dataframe[i].volume > 0 =>
                  dataframe[i].enter_long = 1 /\ dataframe[i].enter_tag = "trigger_buy"
        /\ ~HasCommand(commands, metadata.pair, "BUY")

\* C8: no host callback raises.
C8_NoException == entry.outcome /= "raised" /\ exit.outcome /= "raised"

BothBasePaths ==
    /\ EntryRan /\ entry.outcome = "returned" /\ entry.path = "base"
    /\ ExitRan /\ exit.outcome = "returned" /\ exit.path = "base"

\* C5 as stated: from the base rule paths no row has enter_long and exit_long both set.
C5_Exclusive ==
    BothBasePaths =>
        \A i \in 1..Len(dataframe) :
            ~(dataframe[i].enter_long = 1 /\ dataframe[i].exit_long = 1)

\* the row shows no resistance signal, no TTF beyond a trigger level and no close
\* above the swing high
OnlyMacdEmaLegs(row) ==
    /\ ~row.resistance_signal
    /\ ~Gt(row.ttf, Num(upper_trigger_level))
    /\ ~Lt(row.ttf, Num(lower_trigger_level))
    /\ ~Gt(Num(row.close), row.swing_high)

\* C5, amended: from the base rule paths no row has enter_long and exit_long both
\* set, unless the row shows the resistance signal, a TTF beyond a trigger level or a
\* close above the swing high.
C5_ExclusiveMacdEma ==
    BothBasePaths =>
        \A i \in 1..Len(dataframe) :
            OnlyMacdEmaLegs(dataframe[i]) =>
                ~(dataframe[i].enter_long = 1 /\ dataframe[i].exit_long = 1)

\* a dataframe with an entry row and an exit row, both from the MACD/EMA legs
C5_Witness ==
    /\ BothBasePaths
    /\ \E i, j \in 1..Len(dataframe) :
          /\ OnlyMacdEmaLegs(dataframe[i])
          /\ dataframe[i].enter_long = 1 /\ dataframe[i].exit_long = 0
          /\ OnlyMacdEmaLegs(dataframe[j])
          /\ dataframe[j].enter_long = 0 /\ dataframe[j].exit_long = 1

InBand(ttf) == ~ttf.nan /\ -200 * ttf.den <= ttf.num /\ ttf.num <= 200 * ttf.den

PowersDefined(row) ==
    ~row.buyPower.nan /\ ~row.sellPower.nan /\ row.buyPower.num + row.sellPower.num /= 0

====
